---- MODULE Spec2Model ----
(***************************************************************************)
(* The gRPC user service of src/server/server.js: the three handlers       *)
(* createUser, getUsers and deleteUser running concurrently against the    *)
(* PostgreSQL table "users".  A string is a sequence of one-character      *)
(* strings.  Every handler runs synchronously up to its "await pool.query" *)
(* (validation, building the query), the store then executes the query     *)
(* atomically, and the handler's continuation turns the outcome into the   *)
(* gRPC response.                                                          *)
(***************************************************************************)
EXTENDS Integers, Sequences, FiniteSets, TLC

\* ---------------------------------------------------------------- bounds
NumCalls == 2        \* handler invocations that can be in progress at once
MaxId == 3           \* values the sequence users_id_seq may hand out
MaxNameLen == 2      \* longest name of the exhaustive validation inputs
MaxEmailLen == 5     \* longest email of the exhaustive validation inputs

\* ----------------------------------------------------- program constants
VarcharLen == 255    \* VARCHAR(255) of the columns name and email

Calls == 1..NumCalls

\* ---------------------------------------------------------------- strings
NameAlphabet == {"a", "A", " "}
EmailAlphabet == {"a", "A", " ", "@", "."}

IsSpace(ch) == ch = " "

Lower(ch) ==
  CASE ch = "A" -> "a" [] ch = "B" -> "b" [] ch = "J" -> "j" [] ch = "M" -> "m"
    [] ch = "N" -> "n" [] ch = "P" -> "p" [] OTHER -> ch

\* String.prototype.toLowerCase, and LOWER() of PostgreSQL
toLowerCase(s) == [i \in 1..Len(s) |-> Lower(s[i])]

\* String.prototype.trim: whitespace removed from both ends
trim(s) ==
  LET keep == {i \in 1..Len(s) : ~IsSpace(s[i])}
  IN IF keep = {} THEN <<>>
     ELSE LET lo == CHOOSE i \in keep : \A j \in keep : i <= j
              hi == CHOOSE i \in keep : \A j \in keep : j <= i
          IN SubSeq(s, lo, hi)

\* the character class [^\s@]
NotSpaceAt(ch) == ~IsSpace(ch) /\ ch # "@"

\* /^[^\s@]+@[^\s@]+\.[^\s@]+$/.test(email): a split of the whole string
\* into three non-empty runs of [^\s@] around one "@" and one "."
isValidEmail(email) ==
  \E i \in 2..Len(email) : \E j \in (i + 2)..(Len(email) - 1) :
     /\ email[i] = "@"
     /\ email[j] = "."
     /\ \A k \in 1..Len(email) : (k # i /\ k # j) => NotSpaceAt(email[k])

\* all strings over the alphabet abc of length at most n
Strings(abc, n) == UNION {[1..k -> abc] : k \in 0..n}

\* ------------------------------------------------------------ the store
\* A row of the table users.  An outcome of pool.query is the error code
\* it rejects with ("" when it resolves) and the rows it resolves with.
NoRes == [err |-> "none", rows |-> <<>>]

Ids(us) == {u.id : u \in us}

\* ORDER BY id: the rows of us by ascending id
RECURSIVE OrderById(_)
OrderById(us) ==
  IF us = {} THEN <<>>
  ELSE LET first == CHOOSE u \in us : \A v \in us : u.id <= v.id
       IN <<first>> \o OrderById(us \ {first})

\* the INSERT as an upsert (ON CONFLICT (email) DO UPDATE SET name): a
\* conflicting row is replaced
InsertUserUpsert(us, sq, name, email) ==
  LET row == [id |-> sq + 1, name |-> name, email |-> email]
  IN IF Len(name) > VarcharLen \/ Len(email) > VarcharLen
     THEN [err |-> "22001", rows |-> <<>>, users |-> us, seq |-> sq + 1]
     ELSE [err |-> "", rows |-> <<row>>,
           users |-> {u \in us : u.email # email} \cup {row}, seq |-> sq + 1]

\* INSERT INTO users (name, email) VALUES ($1, $2) RETURNING id, name, email
\* on the table of initializeDatabase: id SERIAL takes the next value of
\* the sequence (also when the statement then fails), VARCHAR(255) rejects
\* a longer value (22001), UNIQUE rejects an email already there (23505).
InsertUser(us, sq, name, email) ==
  LET row == [id |-> sq + 1, name |-> name, email |-> email]
  IN IF Len(name) > VarcharLen \/ Len(email) > VarcharLen
     THEN [err |-> "22001", rows |-> <<>>, users |-> us, seq |-> sq + 1]
     ELSE IF \E u \in us : u.email = email
     THEN [err |-> "23505", rows |-> <<>>, users |-> us, seq |-> sq + 1]
     ELSE [err |-> "", rows |-> <<row>>, users |-> us \cup {row}, seq |-> sq + 1]

\* text LIKE pat of PostgreSQL: "%" matches any run of characters, "_"
\* any one character, another character itself.  LikeReach is the set of
\* lengths of the prefixes of text that the first k characters of pat match.
RECURSIVE LikeReach(_, _, _)
LikeReach(text, pat, k) ==
  IF k = 0 THEN {0}
  ELSE LET prev == LikeReach(text, pat, k - 1)
       IN IF pat[k] = "%"
          THEN {j \in 0..Len(text) : \E i \in prev : i <= j}
          ELSE IF pat[k] = "_"
          THEN {i + 1 : i \in {h \in prev : h < Len(text)}}
          ELSE {i + 1 : i \in {h \in prev : h < Len(text) /\ text[h + 1] = pat[k]}}

Like(text, pat) == Len(text) \in LikeReach(text, pat, Len(pat))

\* SELECT id, name, email FROM users WHERE LOWER(name) LIKE LOWER($1) ORDER BY id
SelectLike(us, pattern) ==
  OrderById({u \in us : Like(toLowerCase(u.name), toLowerCase(pattern))})

\* SELECT id, name, email FROM users ORDER BY id
SelectAll(us) == OrderById(us)

\* DELETE FROM users WHERE id = $1 RETURNING id
DeleteRow(us, id) ==
  [rows |-> OrderById({[id |-> u.id, name |-> <<>>, email |-> <<>>] : u \in {v \in us : v.id = id}}),
   users |-> {u \in us : u.id # id}]

\* ------------------------------------------------------------- requests
LongName == [i \in 1..(VarcharLen + 1) |-> "a"]

CreateRequest(name, email) ==
  [op |-> "CreateUser", name |-> name, email |-> email, name_filter |-> <<>>, id |-> 0]

GetRequest(filter) ==
  [op |-> "GetUsers", name |-> <<>>, email |-> <<>>, name_filter |-> filter, id |-> 0]

DeleteRequest(id) ==
  [op |-> "DeleteUser", name |-> <<>>, email |-> <<>>, name_filter |-> <<>>, id |-> id]

\* The requests of the service model.  A field the caller leaves out
\* arrives as "" or 0 (the proto loader is configured with defaults: true).
CreateInputs ==
  { CreateRequest(<<>>, <<"a", "@", "b", ".", "c">>),
    CreateRequest(<<"a">>, <<>>),
    CreateRequest(<<" ">>, <<"a", "@", "b">>),
    CreateRequest(<<"a">>, <<"a", "@", "b">>),
    CreateRequest(<<" ", "a">>, <<"a", "@", "b", ".", "c">>),
    CreateRequest(<<"A", "b">>, <<"A", "@", "b", ".", "c">>),
    CreateRequest(<<"b">>, <<"b", "@", "b", ".", "c">>),
    CreateRequest(LongName, <<"B", "@", "b", ".", "c">>) }

FilterInputs == { <<>>, <<" ">>, <<"a", " ">>, <<"B">>, <<"_">> }

IdInputs == 0..(MaxId + 1)

NoReq == [op |-> "", name |-> <<>>, email |-> <<>>, name_filter |-> <<>>, id |-> 0]

\* the statement a handler passes to pool.query, with its parameters
NoQuery == [sql |-> "", name |-> <<>>, email |-> <<>>, pattern |-> <<>>, id |-> 0]

\* what a handler passes to callback: the status code, the message, the id
\* the message quotes, and the users of the response
NoResp == [code |-> "none", message |-> "", id |-> 0, users |-> <<>>]

Error(code, message) == [code |-> code, message |-> message, id |-> 0, users |-> <<>>]

IdleCall ==
  [pc |-> "idle", req |-> NoReq, query |-> NoQuery, res |-> NoRes, resp |-> NoResp,
   pre |-> {}, post |-> {}, during |-> {}, queries |-> 0, responses |-> 0, at |-> 0]

\* ------------------------------------------------------- the processes
\* waitForDatabase(20, 1000) and waitForServer(client, 30, 1000)
DbRetries == 20
ServerRetries == 30

\* a process that has not exited has no exit status
Running == -1

\* the server process before main() runs. pc is where main stands, i the
\* loop variable of waitForDatabase; probes and failed count the probes
\* issued and the probes that failed, ready is "Database is ready", schema
\* is "Database initialized successfully"
ServerOff ==
  [pc |-> "off", i |-> 0, probes |-> 0, failed |-> 0, ready |-> FALSE, schema |-> FALSE,
   exit |-> Running]

\* the server process that found the store at its first probe, created the
\* table and bound its listener
ServerServing ==
  [pc |-> "serving", i |-> 0, probes |-> 1, failed |-> 0, ready |-> TRUE, schema |-> TRUE,
   exit |-> Running]

\* the client process before main() runs. pc is where main stands, i the
\* loop variable of waitForServer, step the next call of the demo, user2
\* the id the second CreateUser returned; probes and failed count the
\* probes, ops the calls of the demo issued, ready is "Server is ready and
\* responding"
ClientOff ==
  [pc |-> "off", i |-> 0, probes |-> 0, failed |-> 0, ready |-> FALSE, step |-> 1,
   user2 |-> 0, ops |-> 0, exit |-> Running]

\* ----------------------------------------------------------------- state
VARIABLES
  users,   \* the rows of the table users
  seq,     \* the last value users_id_seq handed out
  calls,   \* the handler invocations: where each stands and what it holds
  db,      \* whether the store accepts connections: "up" or "down"
  server,  \* the server process
  client   \* the client process

vars == <<users, seq, calls, db, server, client>>

procs == <<db, server, client>>

\* the handlers of a server that is serving, called by any callers
Init ==
  /\ users = {}
  /\ seq = 0
  /\ calls = [c \in Calls |-> IdleCall]
  /\ db = "up"
  /\ server = ServerServing
  /\ client = ClientOff

\* callback(...) of a handler: the invocation ends with this response
Respond(c, req, resp) ==
  calls' = [calls EXCEPT ![c].pc = "done", ![c].req = req, ![c].resp = resp,
                         ![c].responses = @ + 1]

\* await pool.query(...): the handler issues the statement and suspends
Query(c, req, query) ==
  calls' = [calls EXCEPT ![c].pc = "await", ![c].req = req, ![c].query = query,
                         ![c].queries = @ + 1]

\* ----------------------------------------------------------- createUser
\* createUser with the email checked before the name
CreateUserCheckEmailFirst(name, email) ==
  IF name = <<>> \/ email = <<>> THEN "All fields are required"
  ELSE IF ~isValidEmail(email) THEN "Invalid email format"
  ELSE IF Len(trim(name)) = 0 THEN "Name cannot be empty"
  ELSE ""

\* createUser without the check of the email's format
CreateUserCheckNoFormat(name, email) ==
  IF name = <<>> \/ email = <<>> THEN "All fields are required"
  ELSE IF Len(trim(name)) = 0 THEN "Name cannot be empty"
  ELSE ""

\* the validation of createUser: the message of the first check that
\* fails, "" when all pass
CreateUserCheck(name, email) ==
  IF name = <<>> \/ email = <<>> THEN "All fields are required"
  ELSE IF Len(trim(name)) = 0 THEN "Name cannot be empty"
  ELSE IF ~isValidEmail(email) THEN "Invalid email format"
  ELSE ""

\* the INSERT given the email as the caller wrote it
InsertQueryRawEmail(name, email) ==
  [sql |-> "INSERT", name |-> trim(name), email |-> email, pattern |-> <<>>, id |-> 0]

\* the INSERT given the name as the caller wrote it
InsertQueryUntrimmed(name, email) ==
  [sql |-> "INSERT", name |-> name, email |-> toLowerCase(email), pattern |-> <<>>, id |-> 0]

\* the parameters of the INSERT: [name.trim(), email.toLowerCase()]
InsertQuery(name, email) ==
  [sql |-> "INSERT", name |-> trim(name), email |-> toLowerCase(email),
   pattern |-> <<>>, id |-> 0]

\* createUser up to its await
createUser(c, req) ==
  /\ req.op = "CreateUser"
  /\ IF CreateUserCheck(req.name, req.email) # ""
     THEN Respond(c, req, Error("INVALID_ARGUMENT", CreateUserCheck(req.name, req.email)))
     ELSE Query(c, req, InsertQuery(req.name, req.email))
  /\ UNCHANGED <<users, seq>>

\* createUser passing the store's error code on to the caller
CreateUserResponseRaw(res) ==
  IF res.err = ""
  THEN [code |-> "OK", message |-> "", id |-> 0, users |-> <<res.rows[1]>>]
  ELSE Error(res.err, "Failed to create user")

\* the response createUser gives for the outcome of its INSERT
CreateUserResponse(res) ==
  IF res.err = ""
  THEN [code |-> "OK", message |-> "", id |-> 0, users |-> <<res.rows[1]>>]
  ELSE IF res.err = "23505"
  THEN Error("ALREADY_EXISTS", "User with this email already exists")
  ELSE Error("INTERNAL", "Failed to create user")

\* createUser issuing its INSERT again when the store failed
createUserResumeRetry(c) ==
  /\ calls[c].pc = "settled"
  /\ calls[c].req.op = "CreateUser"
  /\ IF calls[c].res.err \notin {"", "23505"}
     THEN Query(c, calls[c].req, calls[c].query)
     ELSE Respond(c, calls[c].req, CreateUserResponse(calls[c].res))
  /\ UNCHANGED <<users, seq>>

\* createUser after its await
createUserResume(c) ==
  /\ calls[c].pc = "settled"
  /\ calls[c].req.op = "CreateUser"
  /\ Respond(c, calls[c].req, CreateUserResponse(calls[c].res))
  /\ UNCHANGED <<users, seq>>

\* ------------------------------------------------------------- getUsers
\* getUsers filtering by every non-empty name_filter, untrimmed
SelectQueryUntrimmed(name_filter) ==
  IF name_filter # <<>>
  THEN [sql |-> "SELECT_LIKE", name |-> <<>>, email |-> <<>>,
        pattern |-> <<"%">> \o name_filter \o <<"%">>, id |-> 0]
  ELSE [sql |-> "SELECT_ALL", name |-> <<>>, email |-> <<>>, pattern |-> <<>>, id |-> 0]

\* the statement of getUsers: filtered when name_filter is not blank
SelectQuery(name_filter) ==
  IF name_filter # <<>> /\ Len(trim(name_filter)) > 0
  THEN [sql |-> "SELECT_LIKE", name |-> <<>>, email |-> <<>>,
        pattern |-> <<"%">> \o trim(name_filter) \o <<"%">>, id |-> 0]
  ELSE [sql |-> "SELECT_ALL", name |-> <<>>, email |-> <<>>, pattern |-> <<>>, id |-> 0]

\* getUsers up to its await
getUsers(c, req) ==
  /\ req.op = "GetUsers"
  /\ Query(c, req, SelectQuery(req.name_filter))
  /\ UNCHANGED <<users, seq>>

GetUsersResponse(res) ==
  IF res.err = ""
  THEN [code |-> "OK", message |-> "", id |-> 0, users |-> res.rows]
  ELSE Error("INTERNAL", "Failed to retrieve users")

\* getUsers after its await
getUsersResume(c) ==
  /\ calls[c].pc = "settled"
  /\ calls[c].req.op = "GetUsers"
  /\ Respond(c, calls[c].req, GetUsersResponse(calls[c].res))
  /\ UNCHANGED <<users, seq>>

\* ----------------------------------------------------------- deleteUser
\* deleteUser without the check of the id
deleteUserNoIdCheck(c, req) ==
  /\ req.op = "DeleteUser"
  /\ Query(c, req, [sql |-> "DELETE", name |-> <<>>, email |-> <<>>,
                     pattern |-> <<>>, id |-> req.id])
  /\ UNCHANGED <<users, seq>>

\* deleteUser up to its await
deleteUser(c, req) ==
  /\ req.op = "DeleteUser"
  /\ IF req.id = 0
     THEN Respond(c, req, Error("INVALID_ARGUMENT", "User ID is required"))
     ELSE Query(c, req, [sql |-> "DELETE", name |-> <<>>, email |-> <<>>,
                         pattern |-> <<>>, id |-> req.id])
  /\ UNCHANGED <<users, seq>>

\* deleteUser without the look at the number of rows deleted
DeleteUserResponseNoRowCheck(res, id) ==
  IF res.err # "" THEN Error("INTERNAL", "Failed to delete user")
  ELSE [code |-> "OK", message |-> "User with ID <id> successfully deleted", id |-> id,
        users |-> <<>>]

DeleteUserResponse(res, id) ==
  IF res.err # "" THEN Error("INTERNAL", "Failed to delete user")
  ELSE IF Len(res.rows) = 0
  THEN [code |-> "NOT_FOUND", message |-> "User with ID <id> not found", id |-> id,
        users |-> <<>>]
  ELSE [code |-> "OK", message |-> "User with ID <id> successfully deleted", id |-> id,
        users |-> <<>>]

\* deleteUser after its await
deleteUserResume(c) ==
  /\ calls[c].pc = "settled"
  /\ calls[c].req.op = "DeleteUser"
  /\ Respond(c, calls[c].req, DeleteUserResponse(calls[c].res, calls[c].req.id))
  /\ UNCHANGED <<users, seq>>

\* -------------------------------------------- the store runs a statement
\* the awaited query settles with outcome res, the table becoming us; the
\* invocation notes the table before and after its statement, the
\* invocations whose statement was waiting while its own ran, and the last
\* value the id sequence had handed out before its statement
Settle(c, res, us) ==
  calls' = [calls EXCEPT ![c].pc = "settled", ![c].res = res,
                         ![c].pre = users, ![c].post = us,
                         ![c].during = {d \in Calls \ {c} : calls[d].pc = "await"},
                         ![c].at = seq]

ExecInsert(c) ==
  /\ calls[c].pc = "await"
  /\ calls[c].query.sql = "INSERT"
  /\ seq < MaxId
  /\ LET r == InsertUser(users, seq, calls[c].query.name, calls[c].query.email)
     IN /\ users' = r.users
        /\ seq' = r.seq
        /\ Settle(c, [err |-> r.err, rows |-> r.rows], r.users)

ExecSelect(c) ==
  /\ calls[c].pc = "await"
  /\ calls[c].query.sql \in {"SELECT_LIKE", "SELECT_ALL"}
  /\ Settle(c, [err |-> "",
                rows |-> IF calls[c].query.sql = "SELECT_LIKE"
                         THEN SelectLike(users, calls[c].query.pattern)
                         ELSE SelectAll(users)], users)
  /\ UNCHANGED <<users, seq>>

ExecDelete(c) ==
  /\ calls[c].pc = "await"
  /\ calls[c].query.sql = "DELETE"
  /\ LET r == DeleteRow(users, calls[c].query.id)
     IN /\ users' = r.users
        /\ Settle(c, [err |-> "", rows |-> r.rows], r.users)
  /\ UNCHANGED seq

\* the store cannot be reached: the query rejects with a connection error
\* before its statement runs (a statement runs wholly or not at all)
ExecFail(c) ==
  /\ calls[c].pc = "await"
  /\ Settle(c, [err |-> "08006", rows |-> <<>>], users)
  /\ UNCHANGED <<users, seq>>

\* the caller has its response: the invocation is over
Return(c) ==
  /\ calls[c].pc = "done"
  /\ calls' = [d \in Calls |-> IF d = c THEN IdleCall
                               ELSE [calls[d] EXCEPT !.during = @ \ {c}]]
  /\ UNCHANGED <<users, seq>>

\* a request arrives and its handler runs to its first await
CallCreateUser(c) ==
  /\ calls[c].pc = "idle"
  /\ \E req \in CreateInputs : createUser(c, req)

CallGetUsers(c) ==
  /\ calls[c].pc = "idle"
  /\ \E f \in FilterInputs : getUsers(c, GetRequest(f))

CallDeleteUser(c) ==
  /\ calls[c].pc = "idle"
  /\ \E id \in IdInputs : deleteUser(c, DeleteRequest(id))

Next ==
  \E c \in Calls :
     \/ CallCreateUser(c) /\ UNCHANGED procs
     \/ CallGetUsers(c) /\ UNCHANGED procs
     \/ CallDeleteUser(c) /\ UNCHANGED procs
     \/ ExecInsert(c) /\ UNCHANGED procs
     \/ ExecSelect(c) /\ UNCHANGED procs
     \/ ExecDelete(c) /\ UNCHANGED procs
     \/ ExecFail(c) /\ UNCHANGED procs
     \/ createUserResume(c) /\ UNCHANGED procs
     \/ getUsersResume(c) /\ UNCHANGED procs
     \/ deleteUserResume(c) /\ UNCHANGED procs
     \/ Return(c) /\ UNCHANGED procs

Spec == Init /\ [][Next]_vars

\* ------------------------------------- the validation on every short input
\* One CreateUser request, of any name and email up to the length bounds,
\* has arrived; the handler runs on it.
InitValidate ==
  /\ users = {}
  /\ seq = 0
  /\ \E name \in Strings(NameAlphabet, MaxNameLen) :
     \E email \in Strings(EmailAlphabet, MaxEmailLen) :
        calls = [c \in Calls |->
                   IF c = 1 THEN [IdleCall EXCEPT !.pc = "sent",
                                                  !.req = CreateRequest(name, email)]
                   ELSE IdleCall]
  /\ db = "up"
  /\ server = ServerServing
  /\ client = ClientOff

DispatchCreateUser(c) ==
  /\ calls[c].pc = "sent"
  /\ createUser(c, calls[c].req)

NextValidate ==
  \E c \in Calls :
     \/ DispatchCreateUser(c) /\ UNCHANGED procs
     \/ ExecInsert(c) /\ UNCHANGED procs
     \/ ExecFail(c) /\ UNCHANGED procs
     \/ createUserResume(c) /\ UNCHANGED procs

SpecValidate == InitValidate /\ [][NextValidate]_vars

\* ------------------------------------------------------ server startup
\* main() of the server starts: the fixed wait before the first probe
ServerMain ==
  /\ server.pc = "off"
  /\ server' = [server EXCEPT !.pc = "sleep"]
  /\ UNCHANGED <<users, seq, calls, db, client>>

\* the fixed wait is over: waitForDatabase enters its loop with i = 0
waitForDatabase ==
  /\ server.pc = "sleep"
  /\ server' = [server EXCEPT !.pc = IF 0 < DbRetries THEN "probe" ELSE "exited",
                              !.exit = IF 0 < DbRetries THEN Running ELSE 1]
  /\ UNCHANGED <<users, seq, calls, db, client>>

\* waitForDatabase going on to the listener whatever its probe said
DbProbeUnchecked ==
  /\ server.pc = "probe"
  /\ server' = [server EXCEPT !.pc = "init", !.probes = @ + 1, !.ready = (db = "up"),
                              !.failed = IF db = "up" THEN @ ELSE @ + 1]
  /\ UNCHANGED <<users, seq, calls, db, client>>

\* one turn of the loop: await pool.query('SELECT 1'); success returns
\* from waitForDatabase, failure goes to the delay
DbProbe ==
  /\ server.pc = "probe"
  /\ IF db = "up"
     THEN server' = [server EXCEPT !.pc = "init", !.probes = @ + 1, !.ready = TRUE]
     ELSE server' = [server EXCEPT !.pc = "backoff", !.probes = @ + 1, !.failed = @ + 1]
  /\ UNCHANGED <<users, seq, calls, db, client>>

\* the delay with one turn more than the budget
DbBackoffOneMore ==
  /\ server.pc = "backoff"
  /\ server' = [server EXCEPT !.i = @ + 1,
                              !.pc = IF server.i + 1 <= DbRetries THEN "probe" ELSE "exited",
                              !.exit = IF server.i + 1 <= DbRetries THEN Running ELSE 1]
  /\ UNCHANGED <<users, seq, calls, db, client>>

\* the delay is over: i++, then the next turn, or past the loop the throw
\* that main catches with process.exit(1)
DbBackoff ==
  /\ server.pc = "backoff"
  /\ server' = [server EXCEPT !.i = @ + 1,
                              !.pc = IF server.i + 1 < DbRetries THEN "probe" ELSE "exited",
                              !.exit = IF server.i + 1 < DbRetries THEN Running ELSE 1]
  /\ UNCHANGED <<users, seq, calls, db, client>>

\* await initializeDatabase(): CREATE TABLE IF NOT EXISTS; its failure is
\* rethrown and main catches it with process.exit(1)
initializeDatabase ==
  /\ server.pc = "init"
  /\ IF db = "up"
     THEN server' = [server EXCEPT !.pc = "bind", !.schema = TRUE]
     ELSE server' = [server EXCEPT !.pc = "exited", !.exit = 1]
  /\ UNCHANGED <<users, seq, calls, db, client>>

\* the callback of server.bindAsync without an error: the server serves
BindOk ==
  /\ server.pc = "bind"
  /\ server' = [server EXCEPT !.pc = "serving"]
  /\ UNCHANGED <<users, seq, calls, db, client>>

\* the callback of server.bindAsync with an error (the port is taken): it
\* logs and returns; the process neither serves nor calls process.exit
BindFailed ==
  /\ server.pc = "bind"
  /\ server' = [server EXCEPT !.pc = "bind_failed"]
  /\ UNCHANGED <<users, seq, calls, db, client>>

\* a process that listens on nothing ends when its event loop is empty:
\* exit status 0
ServerDrains ==
  /\ server.pc = "bind_failed"
  /\ server' = [server EXCEPT !.pc = "exited", !.exit = 0]
  /\ UNCHANGED <<users, seq, calls, db, client>>

\* the store starts or stops accepting connections
DbUp ==
  /\ db = "down"
  /\ db' = "up"
  /\ UNCHANGED <<users, seq, calls, server, client>>

DbDown ==
  /\ db = "up"
  /\ db' = "down"
  /\ UNCHANGED <<users, seq, calls, server, client>>

\* ------------------------------------------------------------ the client
\* the texts of the demo, character by character ("c'" stands for the
\* letter c with acute of the three surnames)
MarkoName ==
  <<"M", "a", "r", "k", "o", " ", "P", "e", "t", "r", "o", "v", "i", "c'">>

MarkoEmail ==
  <<"m", "a", "r", "k", "o", ".", "p", "e", "t", "r", "o", "v", "i", "c", "@",
    "e", "x", "a", "m", "p", "l", "e", ".", "c", "o", "m">>

AnaName ==
  <<"A", "n", "a", " ", "J", "o", "v", "a", "n", "o", "v", "i", "c'">>

AnaEmail ==
  <<"a", "n", "a", ".", "j", "o", "v", "a", "n", "o", "v", "i", "c", "@", "e",
    "x", "a", "m", "p", "l", "e", ".", "c", "o", "m">>

NikolaName ==
  <<"N", "i", "k", "o", "l", "a", " ", "N", "i", "k", "o", "l", "i", "c'">>

NikolaEmail ==
  <<"n", "i", "k", "o", "l", "a", ".", "n", "i", "k", "o", "l", "i", "c", "@",
    "e", "x", "a", "m", "p", "l", "e", ".", "c", "o", "m">>

\* the calls of the demo in their order
DemoSteps == 9

\* the request of the demo's call number step; user2 is the id the second
\* CreateUser returned
DemoRequest(step, user2) ==
  CASE step = 1 -> CreateRequest(MarkoName, MarkoEmail)
    [] step = 2 -> CreateRequest(AnaName, AnaEmail)
    [] step = 3 -> CreateRequest(NikolaName, NikolaEmail)
    [] step = 4 -> GetRequest(<<>>)
    [] step = 5 -> DeleteRequest(user2)
    [] step = 6 -> GetRequest(<<>>)
    [] step = 7 -> GetRequest(<<"M", "a", "r", "k", "o">>)
    [] step = 8 -> GetRequest(<<"n", "i", "k">>)
    [] step = 9 -> GetRequest(<<"A", "n", "a">>)

\* the invocation a request of the one client gets at the server
FreeSlot(c) ==
  /\ calls[c].pc = "idle"
  /\ \A d \in Calls : d < c => calls[d].pc # "idle"

\* the server's handler for the request runs to its first await
Handle(c, req) == createUser(c, req) \/ getUsers(c, req) \/ deleteUser(c, req)

\* main() of the client starts: waitForServer enters its loop with i = 0
ClientMain ==
  /\ client.pc = "off"
  /\ client' = [client EXCEPT !.pc = IF 0 < ServerRetries THEN "probe" ELSE "exited",
                              !.exit = IF 0 < ServerRetries THEN Running ELSE 1]
  /\ UNCHANGED <<users, seq, calls, db, server>>

\* one turn of the loop: client.GetUsers({}, ...) reaches a server that
\* serves; the client awaits the answer
ProbeSent ==
  /\ client.pc = "probe"
  /\ server.pc = "serving"
  /\ \E c \in Calls : FreeSlot(c) /\ Handle(c, GetRequest(<<>>))
  /\ client' = [client EXCEPT !.pc = "probing", !.probes = @ + 1]
  /\ UNCHANGED <<db, server>>

\* waitForServer taking a call that found no server for an answer
ProbeUnavailableIgnored ==
  /\ client.pc = "probe"
  /\ server.pc # "serving"
  /\ client' = [client EXCEPT !.pc = "demo", !.probes = @ + 1, !.ready = TRUE]
  /\ UNCHANGED <<users, seq, calls, db, server>>

\* one turn of the loop: client.GetUsers({}, ...) finds no server
\* listening, the call fails and the client goes to its delay
ProbeUnavailable ==
  /\ client.pc = "probe"
  /\ server.pc # "serving"
  /\ client' = [client EXCEPT !.pc = "backoff", !.probes = @ + 1, !.failed = @ + 1]
  /\ UNCHANGED <<users, seq, calls, db, server>>

\* the answer to the probe: success returns from waitForServer and the
\* demo begins, an error goes to the delay
ProbeAnswered ==
  /\ client.pc = "probing"
  /\ \E c \in Calls :
        /\ Return(c)
        /\ IF calls[c].resp.code = "OK"
           THEN client' = [client EXCEPT !.pc = "demo", !.ready = TRUE]
           ELSE client' = [client EXCEPT !.pc = "backoff", !.failed = @ + 1]
  /\ UNCHANGED <<db, server>>

\* the delay going on to the demo when the loop is over
ClientBackoffFallsThrough ==
  /\ client.pc = "backoff"
  /\ client' = [client EXCEPT !.i = @ + 1,
                              !.pc = IF client.i + 1 < ServerRetries THEN "probe" ELSE "demo"]
  /\ UNCHANGED <<users, seq, calls, db, server>>

\* the delay is over: i++, then the next turn, or past the loop the throw
\* that main catches with process.exit(1)
ClientBackoff ==
  /\ client.pc = "backoff"
  /\ client' = [client EXCEPT !.i = @ + 1,
                              !.pc = IF client.i + 1 < ServerRetries THEN "probe" ELSE "exited",
                              !.exit = IF client.i + 1 < ServerRetries THEN Running ELSE 1]
  /\ UNCHANGED <<users, seq, calls, db, server>>

\* the next call of the demo: it reaches the server and the client awaits
\* the answer, or it finds no server listening, the helper's promise is
\* rejected and main catches it with process.exit(1)
DemoCall ==
  /\ client.pc = "demo"
  /\ IF server.pc = "serving"
     THEN /\ \E c \in Calls :
                FreeSlot(c) /\ Handle(c, DemoRequest(client.step, client.user2))
          /\ client' = [client EXCEPT !.pc = "calling", !.ops = @ + 1]
     ELSE /\ client' = [client EXCEPT !.pc = "exited", !.ops = @ + 1, !.exit = 1]
          /\ UNCHANGED <<users, seq, calls>>
  /\ UNCHANGED <<db, server>>

\* the answer to a call of the demo: an error ends the process with
\* process.exit(1), the last answer with process.exit(0), any other goes
\* on to the next call; the second answer gives user2
DemoAnswered ==
  /\ client.pc = "calling"
  /\ \E c \in Calls :
        /\ Return(c)
        /\ IF calls[c].resp.code # "OK"
           THEN client' = [client EXCEPT !.pc = "exited", !.exit = 1]
           ELSE IF client.step = DemoSteps
           THEN client' = [client EXCEPT !.pc = "exited", !.exit = 0]
           ELSE client' = [client EXCEPT !.pc = "demo", !.step = @ + 1,
                              !.user2 = IF client.step = 2
                                        THEN calls[c].resp.users[1].id ELSE @]
  /\ UNCHANGED <<db, server>>

\* ------------------------------------ store, server and client together
\* The store is down or up and may change at any time; the server and the
\* client process start in any order; the client is the only caller.
InitSystem ==
  /\ users = {}
  /\ seq = 0
  /\ calls = [c \in Calls |-> IdleCall]
  /\ db \in {"down", "up"}
  /\ server = ServerOff
  /\ client = ClientOff

\* the store runs the statement of a waiting invocation, or refuses the
\* connection when it is down
StoreAnswers ==
  \E c \in Calls :
     \/ db = "up" /\ ExecInsert(c) /\ UNCHANGED procs
     \/ db = "up" /\ ExecSelect(c) /\ UNCHANGED procs
     \/ db = "up" /\ ExecDelete(c) /\ UNCHANGED procs
     \/ db = "down" /\ ExecFail(c) /\ UNCHANGED procs

\* a handler goes on after its await
HandlerResumes ==
  \E c \in Calls :
     \/ createUserResume(c) /\ UNCHANGED procs
     \/ getUsersResume(c) /\ UNCHANGED procs
     \/ deleteUserResume(c) /\ UNCHANGED procs

ServerStep ==
  \/ waitForDatabase
  \/ DbProbe
  \/ DbBackoff
  \/ initializeDatabase
  \/ BindOk
  \/ BindFailed

ClientStep ==
  \/ ProbeSent
  \/ ProbeUnavailable
  \/ ProbeAnswered
  \/ ClientBackoff
  \/ DemoCall
  \/ DemoAnswered

NextSystem ==
  \/ ServerMain
  \/ ClientMain
  \/ DbUp
  \/ DbDown
  \/ ServerStep
  \/ ServerDrains
  \/ ClientStep
  \/ StoreAnswers
  \/ HandlerResumes

SpecSystem == InitSystem /\ [][NextSystem]_vars

\* --------------------------------------------- the two readiness loops
\* The same system up to the end of waitForServer: the store, the startup
\* of the server, and the client probing it. The only requests are the
\* client's probes.
ProbeHandled ==
  \E c \in Calls :
     \/ db = "up" /\ ExecSelect(c) /\ UNCHANGED procs
     \/ db = "down" /\ ExecFail(c) /\ UNCHANGED procs
     \/ getUsersResume(c) /\ UNCHANGED procs

ClientProbes ==
  \/ ProbeSent
  \/ ProbeUnavailable
  \/ ProbeAnswered
  \/ ClientBackoff

NextLoops ==
  \/ ServerMain
  \/ ClientMain
  \/ DbUp
  \/ DbDown
  \/ ServerStep
  \/ ServerDrains
  \/ ClientProbes
  \/ ProbeHandled

SpecLoops == InitSystem /\ [][NextLoops]_vars

\* a step of the programs: anything but the store coming up or going
\* down and the end of a server that listens on nothing
LoopsProgress ==
  \/ ServerMain
  \/ ClientMain
  \/ ServerStep
  \/ ClientProbes
  \/ ProbeHandled

\* The processes do not stop for no reason: while a process can start, a
\* timer can fire, or a query or a call can be answered, one of these
\* happens. Nothing is assumed about the store coming up or staying up.
SpecLoopsFair == SpecLoops /\ WF_vars(LoopsProgress)

\* ------------------------------------------- the terms of the properties
FoldChar(ch) ==
  IF ch \in {"A", "B", "J", "M", "N", "P"}
  THEN CHOOSE l \in {"a", "b", "j", "m", "n", "p"} :
          <<ch, l>> \in {<<"A", "a">>, <<"B", "b">>, <<"J", "j">>, <<"M", "m">>,
                         <<"N", "n">>, <<"P", "p">>}
  ELSE ch

\* s with its letters in lower case
Fold(s) == [i \in DOMAIN s |-> FoldChar(s[i])]

\* s is empty or holds only whitespace
Blank(s) == \A i \in DOMAIN s : s[i] = " "

\* t is s without its leading and trailing whitespace
Stripped(s, t) ==
  \/ Blank(s) /\ t = <<>>
  \/ \E i \in DOMAIN s : \E j \in i..Len(s) :
        /\ s[i] # " " /\ s[j] # " "
        /\ \A k \in DOMAIN s : (k < i \/ k > j) => s[k] = " "
        /\ t = SubSeq(s, i, j)

\* e has the shape local@domain.tld: no whitespace, one "@" with text
\* before it, and after it a "." with text on both sides
EmailShape(e) ==
  /\ \A i \in DOMAIN e : e[i] # " "
  /\ Cardinality({i \in DOMAIN e : e[i] = "@"}) = 1
  /\ LET at == CHOOSE i \in DOMAIN e : e[i] = "@"
     IN /\ at > 1
        /\ \E j \in DOMAIN e : e[j] = "." /\ j > at + 1 /\ j < Len(e)

\* the request passes the three checks of CreateUser
ValidCreate(req) == req.name # <<>> /\ req.email # <<>> /\ ~Blank(req.name) /\ EmailShape(req.email)

Emails(us) == {u.email : u \in us}

DoneOp(c, op) == calls[c].pc = "done" /\ calls[c].req.op = op

\* the store was reachable when the invocation's statement ran
StoreUp(c) == calls[c].res.err # "08006"

\* ------------------------------------------------------------------ C1
\* C1: in every reachable state no two live records have emails that are
\* equal when compared without regard to letter case.
C1_UniqueEmail ==
  \A u \in users : \A v \in users : u # v => Fold(u.email) # Fold(v.email)

\* two records are live, one of them created from an email in upper case
C1_Witness ==
  /\ Cardinality(users) = 2
  /\ \E c \in Calls : /\ DoneOp(c, "CreateUser")
                       /\ calls[c].resp.code = "OK"
                       /\ calls[c].req.email # Fold(calls[c].req.email)

\* ------------------------------------------------------------------ C2
\* c and d are CreateUser invocations of the same email, both past
\* validation, that race: d's INSERT was waiting while c's ran, c's ran on
\* a table without that email and d's on the table c's left, and the store
\* was reachable for both
Race(c, d) ==
  /\ c # d
  /\ DoneOp(c, "CreateUser") /\ DoneOp(d, "CreateUser")
  /\ ValidCreate(calls[c].req) /\ ValidCreate(calls[d].req)
  /\ Fold(calls[c].req.email) = Fold(calls[d].req.email)
  /\ d \in calls[c].during
  /\ Fold(calls[c].req.email) \notin Emails(calls[c].pre)
  /\ calls[d].pre = calls[c].post
  /\ StoreUp(c) /\ StoreUp(d)

\* C2: of two concurrent CreateUser calls with the same valid email on a
\* store without that email, exactly one succeeds and the other returns
\* AlreadyExists.
C2_OneWinsOneConflicts ==
  \A c \in Calls : \A d \in Calls : Race(c, d) =>
     /\ calls[c].resp.code = "OK"
     /\ calls[d].resp.code = "ALREADY_EXISTS"

\* ------------------------------------------------------------------ C3
\* C3: CreateUser reports the first failing check only: a missing name or
\* email gives "All fields are required"; otherwise a blank name gives
\* "Name cannot be empty"; otherwise an email not of the shape
\* local@domain.tld gives "Invalid email format"; a request passing all
\* three is not rejected as InvalidArgument.
C3_FirstFailureWins ==
  \A c \in Calls : DoneOp(c, "CreateUser") =>
     LET req == calls[c].req
         resp == calls[c].resp
         invalid(m) == resp.code = "INVALID_ARGUMENT" /\ resp.message = m
     IN IF req.name = <<>> \/ req.email = <<>> THEN invalid("All fields are required")
        ELSE IF Blank(req.name) THEN invalid("Name cannot be empty")
        ELSE IF ~EmailShape(req.email) THEN invalid("Invalid email format")
        ELSE resp.code # "INVALID_ARGUMENT"

\* a request failing both the name check and the email check is answered
C3_Witness ==
  \E c \in Calls :
     /\ DoneOp(c, "CreateUser")
     /\ calls[c].req.name # <<>> /\ Blank(calls[c].req.name)
     /\ calls[c].req.email # <<>> /\ ~EmailShape(calls[c].req.email)
     /\ calls[c].resp.message = "Name cannot be empty"

\* ------------------------------------------------------------------ C4
\* C4: a CreateUser with a valid name and email, the email used by no live
\* record, succeeds (the store being reachable) and returns a record with
\* the lowercased email, the trimmed name and an id the store assigned.
C4_ValidCreateSucceeds ==
  \A c \in Calls :
     ( /\ DoneOp(c, "CreateUser")
       /\ ValidCreate(calls[c].req)
       /\ StoreUp(c)
       /\ Fold(calls[c].req.email) \notin Emails(calls[c].pre) ) =>
     /\ calls[c].resp.code = "OK"
     /\ Len(calls[c].resp.users) = 1
     /\ calls[c].resp.users[1].email = Fold(calls[c].req.email)
     /\ Stripped(calls[c].req.name, calls[c].resp.users[1].name)
     /\ calls[c].resp.users[1].id > 0
     /\ calls[c].resp.users[1].id \notin Ids(calls[c].pre)

\* ------------------------------------------------------------------ C5
\* C5: while a record with email e is live, a valid CreateUser whose email
\* differs from e only in letter case fails with
\* AlreadyExists("User with this email already exists").
C5_CaseVariantConflicts ==
  \A c \in Calls :
     ( /\ DoneOp(c, "CreateUser")
       /\ ValidCreate(calls[c].req)
       /\ StoreUp(c)
       /\ \E u \in calls[c].pre : /\ u.email # calls[c].req.email
                                  /\ Fold(u.email) = Fold(calls[c].req.email) ) =>
     /\ calls[c].resp.code = "ALREADY_EXISTS"
     /\ calls[c].resp.message = "User with this email already exists"

\* ------------------------------------------------------------------ C6
\* C6: a CreateUser that fails validation returns InvalidArgument without
\* querying the store, which keeps its records, and an identical call gets
\* the same error.
C6_RejectedCreateLeavesStore ==
  \A c \in Calls :
     (DoneOp(c, "CreateUser") /\ ~ValidCreate(calls[c].req)) =>
        /\ calls[c].resp.code = "INVALID_ARGUMENT"
        /\ calls[c].queries = 0
        /\ calls[c].query = NoQuery
        /\ calls[c].res = NoRes
        /\ \A d \in Calls :
              (DoneOp(d, "CreateUser") /\ calls[d].req = calls[c].req) =>
                 calls[d].resp = calls[c].resp

\* the same malformed request was rejected twice while a record is live
C6_Witness ==
  /\ users # {}
  /\ \E c \in Calls : \E d \in Calls :
        /\ c # d
        /\ DoneOp(c, "CreateUser") /\ DoneOp(d, "CreateUser")
        /\ calls[c].req = calls[d].req
        /\ calls[c].resp.message = "Invalid email format"

\* ------------------------------------------------------------------ C7
\* what a finished CreateUser did to the table
C7_Effect ==
  \A c \in Calls : DoneOp(c, "CreateUser") =>
     IF calls[c].resp.code = "OK"
     THEN /\ Len(calls[c].resp.users) = 1
          /\ calls[c].resp.users[1] \notin calls[c].pre
          /\ calls[c].post = calls[c].pre \cup {calls[c].resp.users[1]}
     ELSE /\ calls[c].resp.code \in {"INVALID_ARGUMENT", "ALREADY_EXISTS", "INTERNAL"}
          /\ calls[c].post = calls[c].pre

\* the table changes only as the statement of one invocation runs, from
\* the table that invocation notes as before to the one it notes as after
C7_Step ==
  (users' # users) =>
     \E c \in Calls :
        /\ calls[c].pc = "await" /\ calls'[c].pc = "settled"
        /\ calls'[c].pre = users /\ calls'[c].post = users'
        /\ \A d \in Calls \ {c} : calls'[d] = calls[d]

\* C7: a CreateUser that returns success has added exactly the returned
\* record and changed nothing else; one that returns an error (of kind
\* InvalidArgument, AlreadyExists or Internal) has left the records as
\* they were.
C7_OneRecordOrNothing == []C7_Effect /\ [][C7_Step]_vars

\* one CreateUser succeeded and one was rejected by the store, which
\* holds the one record
C7_Witness ==
  \E c \in Calls : \E d \in Calls :
     /\ DoneOp(c, "CreateUser") /\ calls[c].resp.code = "OK"
     /\ DoneOp(d, "CreateUser") /\ calls[d].resp.code = "ALREADY_EXISTS"
     /\ calls[d].pre = calls[c].post
     /\ users = calls[d].post

\* ------------------------------------------------------------------ C8
\* t occurs in s
Contains(s, t) == \E i \in 0..(Len(s) - Len(t)) : SubSeq(s, i + 1, i + Len(t)) = t

\* rows holds the records of us, each once, by strictly ascending id
AscendingOf(rows, us) ==
  /\ {rows[i] : i \in DOMAIN rows} = us
  /\ \A i \in DOMAIN rows : \A j \in DOMAIN rows : i < j => rows[i].id < rows[j].id

\* C8: GetUsers with a non-blank name_filter returns exactly the live
\* records whose name contains the trimmed filter, letter case aside, as a
\* substring ("%" and "_" stand for themselves), by ascending id.
C8_FilterIsSubstring ==
  \A c \in Calls :
     (DoneOp(c, "GetUsers") /\ ~Blank(calls[c].req.name_filter) /\ StoreUp(c)) =>
        /\ calls[c].resp.code = "OK"
        /\ AscendingOf(calls[c].resp.users,
                       {u \in calls[c].pre :
                          \E t \in {SubSeq(calls[c].req.name_filter, i, j) :
                                      i \in DOMAIN calls[c].req.name_filter,
                                      j \in DOMAIN calls[c].req.name_filter} :
                             /\ Stripped(calls[c].req.name_filter, t)
                             /\ Contains(Fold(u.name), Fold(t))})

\* ------------------------------------------------------------------ C9
\* C9: GetUsers with an absent or blank name_filter returns all the live
\* records and only them, by strictly ascending id.
C9_BlankFilterListsAll ==
  \A c \in Calls :
     (DoneOp(c, "GetUsers") /\ Blank(calls[c].req.name_filter) /\ StoreUp(c)) =>
        /\ calls[c].resp.code = "OK"
        /\ AscendingOf(calls[c].resp.users, calls[c].pre)

\* a whitespace-only filter listed the two live records
C9_Witness ==
  \E c \in Calls :
     /\ DoneOp(c, "GetUsers")
     /\ calls[c].req.name_filter = <<" ">>
     /\ Len(calls[c].resp.users) = 2

\* ----------------------------------------------------------------- C10
\* what a finished DeleteUser of a non-zero id did, and what a finished
\* GetUsers lists
C10_Effect ==
  /\ Ids(users) \subseteq 1..seq
  /\ \A c \in Calls :
        (DoneOp(c, "DeleteUser") /\ calls[c].req.id # 0 /\ StoreUp(c)) =>
           IF calls[c].req.id \in Ids(calls[c].pre)
           THEN /\ calls[c].resp.code = "OK"
                /\ calls[c].post = {u \in calls[c].pre : u.id # calls[c].req.id}
                /\ Cardinality(calls[c].pre \ calls[c].post) = 1
           ELSE /\ calls[c].resp.code = "NOT_FOUND"
                /\ calls[c].resp.message = "User with ID <id> not found"
                /\ calls[c].resp.id = calls[c].req.id
                /\ calls[c].post = calls[c].pre
  /\ \A c \in Calls :
        (DoneOp(c, "GetUsers") /\ calls[c].resp.code = "OK") =>
           {calls[c].resp.users[i] : i \in DOMAIN calls[c].resp.users} \subseteq calls[c].pre

\* an id that was handed out and is not live is not live afterwards
C10_Step == \A i \in 1..seq : i \notin Ids(users) => i \notin Ids(users')

\* C10: DeleteUser of a non-zero id of no live record fails with NotFound
\* and leaves the store as it was; DeleteUser of a live record's id
\* succeeds and removes exactly that record, the id is never live again,
\* so no later GetUsers lists it and a second DeleteUser of it is NotFound.
C10_DeleteRemovesForGood == []C10_Effect /\ [][C10_Step]_vars

\* a record was deleted and the next DeleteUser of its id was NotFound
C10_Witness ==
  \E c \in Calls : \E d \in Calls :
     /\ DoneOp(c, "DeleteUser") /\ calls[c].resp.code = "OK"
     /\ DoneOp(d, "DeleteUser") /\ calls[d].resp.code = "NOT_FOUND"
     /\ calls[d].req.id = calls[c].req.id
     /\ calls[d].pre = calls[c].post

\* ----------------------------------------------------------------- C11
\* C11: DeleteUser with an absent or zero id fails with
\* InvalidArgument("User ID is required"); the store is not queried and
\* no record is removed.
C11_ZeroIdRejected ==
  \A c \in Calls :
     (calls[c].req.op = "DeleteUser" /\ calls[c].req.id = 0) =>
        /\ calls[c].pc = "done"
        /\ calls[c].resp = Error("INVALID_ARGUMENT", "User ID is required")
        /\ calls[c].queries = 0
        /\ calls[c].query = NoQuery
        /\ calls[c].res = NoRes

\* a DeleteUser without id was answered while a record is live
C11_Witness ==
  /\ users # {}
  /\ \E c \in Calls : DoneOp(c, "DeleteUser") /\ calls[c].req.id = 0

\* ----------------------------------------------------------------- C12
\* the error kinds an operation may answer with
ErrorKinds(op) ==
  CASE op = "CreateUser" -> {"INVALID_ARGUMENT", "ALREADY_EXISTS", "INTERNAL"}
    [] op = "GetUsers" -> {"INTERNAL"}
    [] op = "DeleteUser" -> {"INVALID_ARGUMENT", "NOT_FOUND", "INTERNAL"}
    [] OTHER -> {}

\* C12: an invocation gives one response, none before it ends; the
\* response is success or an error of a kind listed for the operation; a
\* store failure other than the email's uniqueness conflict is answered
\* Internal, and only a statement that ran is answered with success.
C12_ErrorsClassified ==
  \A c \in Calls :
     /\ calls[c].responses = (IF calls[c].pc = "done" THEN 1 ELSE 0)
     /\ calls[c].pc # "done" => calls[c].resp = NoResp
     /\ calls[c].pc = "done" =>
          /\ calls[c].resp.code \in {"OK"} \cup ErrorKinds(calls[c].req.op)
          /\ calls[c].res.err \notin {"none", "", "23505"} =>
                calls[c].resp.code = "INTERNAL"
          /\ calls[c].resp.code = "OK" => calls[c].res.err = ""

\* the store rejected an over-long value and another invocation's
\* connection failed: both were answered Internal
C12_Witness ==
  \E c \in Calls : \E d \in Calls :
     /\ DoneOp(c, "CreateUser") /\ calls[c].res.err = "22001"
     /\ calls[c].resp.code = "INTERNAL"
     /\ calls[d].pc = "done" /\ calls[d].req.op # "CreateUser"
     /\ calls[d].res.err = "08006" /\ calls[d].resp.code = "INTERNAL"

\* ----------------------------------------------------------------- C17
\* every live record is well formed
C17_WellFormed ==
  \A u \in users :
     /\ u.id \in 1..seq
     /\ \A v \in users : v.id = u.id => v = u
     /\ u.name # <<>> /\ u.name[1] # " " /\ u.name[Len(u.name)] # " "
     /\ u.email = Fold(u.email) /\ EmailShape(u.email)

\* a record that stays live keeps its id, name and email
C17_Step == \A u \in users : \A v \in users' : v.id = u.id => v = u

\* C17: every record in the store has a unique positive id that never
\* changes, a non-empty name without leading or trailing whitespace and a
\* lower-case email of the shape local@domain.tld; no operation modifies
\* the name or email of an existing record.
C17_RecordsWellFormed == []C17_WellFormed /\ [][C17_Step]_vars

\* a name written with a leading blank was stored trimmed, and an email
\* written in upper case was stored in lower case and is live
C17_Witness ==
  \E c \in Calls : \E d \in Calls :
     /\ DoneOp(c, "CreateUser") /\ calls[c].resp.code = "OK"
     /\ calls[c].req.name # trim(calls[c].req.name)
     /\ calls[c].resp.users[1].name = trim(calls[c].req.name)
     /\ DoneOp(d, "CreateUser") /\ calls[d].resp.code = "OK"
     /\ calls[d].req.email # toLowerCase(calls[d].req.email)
     /\ calls[d].resp.users[1] \in users

\* ----------------------------------------------------------------- C18
\* the request passes the checks its handler makes before the store
PassesValidation(req) ==
  CASE req.op = "CreateUser" -> ValidCreate(req)
    [] req.op = "GetUsers" -> TRUE
    [] req.op = "DeleteUser" -> req.id # 0
    [] OTHER -> FALSE

\* C18: an invocation makes at most one attempt against the store: one
\* query when the request passes validation, none when it does not, and a
\* failed query is not issued again.
C18_SingleAttempt ==
  \A c \in Calls :
     /\ calls[c].queries \in {0, 1}
     /\ calls[c].pc \in {"await", "settled"} => calls[c].queries = 1
     /\ calls[c].pc = "done" =>
          calls[c].queries = (IF PassesValidation(calls[c].req) THEN 1 ELSE 0)

\* a query failed at the store and its invocation ended after that one
\* query, while an invocation that failed validation ended with none
C18_Witness ==
  \E c \in Calls : \E d \in Calls :
     /\ DoneOp(c, "CreateUser") /\ calls[c].res.err \in {"08006", "22001"}
     /\ calls[c].queries = 1
     /\ calls[d].pc = "done" /\ ~PassesValidation(calls[d].req)
     /\ calls[d].queries = 0

\* ----------------------------------------------------------------- C19
\* C19: after a record is deleted its email is free: the next CreateUser
\* with that email, in any letter case, succeeds, and the new record's
\* id differs from every id assigned before, the deleted one included.
C19_EmailFreeAfterDelete ==
  \A c \in Calls : \A d \in Calls :
     ( /\ DoneOp(d, "DeleteUser") /\ calls[d].resp.code = "OK"
       /\ DoneOp(c, "CreateUser") /\ ValidCreate(calls[c].req) /\ StoreUp(c)
       /\ calls[c].at >= calls[d].at /\ calls[c].pre = calls[d].post
       /\ Fold(calls[c].req.email) \in Emails(calls[d].pre \ calls[d].post) ) =>
        /\ calls[c].resp.code = "OK"
        /\ calls[c].resp.users[1].id \notin 1..calls[c].at
        /\ calls[c].resp.users[1].id # calls[d].req.id

\* ----------------------------------------------------------------- C13
\* where a readiness loop stands, for the process p that runs it with the
\* given budget: every probe before the one in hand has failed, READY
\* follows the first success, FAILED follows budget failures and the
\* process has then exited with status 1
LoopState(p, budget) ==
  /\ p.probes <= budget /\ p.failed <= p.probes
  /\ p.pc = "probe" => p.i < budget /\ p.probes = p.i /\ p.failed = p.i /\ ~p.ready
  /\ p.pc = "probing" => p.i < budget /\ p.probes = p.i + 1 /\ p.failed = p.i /\ ~p.ready
  /\ p.pc = "backoff" => p.i < budget /\ p.probes = p.i + 1 /\ p.failed = p.i + 1 /\ ~p.ready
  /\ p.ready => p.probes = p.failed + 1 /\ p.probes = p.i + 1
  /\ (p.pc = "exited" /\ ~p.ready) => p.failed = budget /\ p.probes = budget /\ p.exit = 1
  /\ p.failed = budget => p.pc \in {"backoff", "exited"} /\ ~p.ready

\* a loop that is READY issues no further probe, and a process that has
\* exited stays as it is
LoopStep(p, q) ==
  /\ p.ready => q.probes = p.probes /\ q.ready
  /\ p.pc = "exited" => q = p

C13_State ==
  /\ LoopState(server, DbRetries)
  /\ LoopState(client, ServerRetries)
  /\ client.pc \in {"probe", "probing", "backoff"} =>
        Cardinality({c \in Calls : calls[c].pc # "idle"}) <= 1

C13_Step == LoopStep(server, server') /\ LoopStep(client, client')

\* C13: each readiness loop (waitForDatabase with budget 20, waitForServer
\* with budget 30) issues its probes one at a time, is READY at the first
\* successful probe and issues no further probe, is FAILED only after
\* exactly budget consecutive failed probes, and then its process has
\* exited with status 1 for good; a loop that was entered always ends in
\* one of the two.
C13_ReadinessLoops ==
  /\ []C13_State
  /\ [][C13_Step]_vars
  /\ (server.pc # "off") ~> (server.ready \/ server.pc = "exited")
  /\ (client.pc # "off") ~> (client.ready \/ client.pc = "exited")

\* the client's loop ended FAILED after its 30 probes and the server's
\* loop ended READY after probes that failed
C13_Witness ==
  /\ client.pc = "exited" /\ ~client.ready /\ client.probes = ServerRetries
  /\ server.ready /\ server.failed > 0

\* ----------------------------------------------------------------- C14
C14_State ==
  /\ \A c \in Calls :
        calls[c].pc # "idle" =>
           server.pc = "serving" /\ server.ready /\ server.schema
  /\ server.pc \in {"bind", "serving"} => server.ready /\ server.schema
  /\ server.pc \in {"off", "sleep", "probe", "backoff", "init"} =>
        \A c \in Calls : calls[c].pc = "idle"

\* once the loop is over no probe is issued again
C14_Step ==
  server.pc \in {"init", "bind", "serving", "bind_failed"} =>
     server'.probes = server.probes /\ server'.pc \notin {"sleep", "probe", "backoff"}

\* C14: the server handles no CreateUser, GetUsers or DeleteUser request
\* before a store probe has succeeded and the schema has been initialized;
\* the readiness loop runs once, before the listener is bound, and never
\* while a request is handled.
C14_ServeAfterReady == []C14_State /\ [][C14_Step]_vars

\* a CreateUser is being handled by a server whose first probes failed
C14_Witness ==
  /\ server.failed > 0
  /\ \E c \in Calls : calls[c].pc = "await" /\ calls[c].req.op = "CreateUser"

\* ----------------------------------------------------------------- C15
\* C15: the client issues no CreateUser or DeleteUser call, and no GetUsers
\* call but its probe, before one of its probes has succeeded; when all
\* probes of its budget fail it issues no operation and exits with
\* status 1.
C15_OperationsAfterReady ==
  /\ \A c \in Calls :
        (calls[c].pc # "idle" /\ client.pc # "probing") => client.ready
  /\ \A c \in Calls :
        (calls[c].pc # "idle" /\ client.pc = "probing") =>
           calls[c].req = GetRequest(<<>>)
  /\ client.pc \in {"demo", "calling"} => client.ready
  /\ client.ops > 0 => client.ready
  /\ client.failed = ServerRetries =>
        /\ client.ops = 0
        /\ client.pc \in {"backoff", "exited"}
        /\ client.pc = "exited" => client.exit = 1

\* after probes that failed and one that succeeded, the DeleteUser of the
\* demo is with the server
C15_Witness ==
  /\ client.ready /\ client.failed > 0
  /\ \E c \in Calls : calls[c].pc = "await" /\ calls[c].req.op = "DeleteUser"

\* ----------------------------------------------------------------- C16
\* a readiness loop ended FAILED
ClientFailed == client.pc = "exited" /\ ~client.ready

ServerFailed == server.pc = "exited" /\ ~server.ready

\* C16: the client and the server can start in any order: whichever starts
\* first, when the store becomes available within the server's retry
\* budget the server serves and the client reaches READY and issues its
\* operations; neither of them ends in FAILED.
C16_AnyOrder ==
  server.pc = "serving" => ~ClientFailed /\ ~ServerFailed

\* what the two loops guarantee whatever the order of the starts
C16_State ==
  /\ server.pc = "serving" => server.ready /\ server.schema /\ server.probes <= DbRetries
  /\ client.ready => server.pc = "serving"
  /\ client.ops > 0 => client.ready
  /\ ClientFailed => client.failed = ServerRetries /\ client.ops = 0

\* a probe answered with success makes the client READY, nothing else
\* does, and the next thing a READY client does is issue an operation
C16_Step ==
  /\ (client.pc = "probing" /\ client' # client) =>
        (client'.ready <=> \E c \in Calls : calls[c].resp.code = "OK")
  /\ (~client.ready /\ client'.ready) =>
        /\ client.pc = "probing" /\ server.pc = "serving"
        /\ client.probes <= ServerRetries
  /\ (client.pc = "demo" /\ client' # client) =>
        client'.ops = client.ops + 1 /\ \E c \in Calls : calls'[c].pc # "idle"

\* C16 as amended: the order of the starts does not matter by itself, but
\* the client waits for 30 probes only. It reaches READY, and then issues
\* its operations, exactly when one of its at most 30 probes is answered
\* with success, which takes a server that is serving; a client whose 30
\* probes all failed ends FAILED and issues nothing, even when the server
\* serves later. The server serves only after one of its at most 20 store
\* probes succeeded and the schema was initialized.
C16_AnyOrderWithinClientBudget == []C16_State /\ [][C16_Step]_vars

\* the client started while no server was serving, its first probes
\* failed, a later one was answered and the demo is under way; the server
\* too had found the store down at first
C16_Witness ==
  /\ client.ready /\ client.failed > 0 /\ client.ops > 0
  /\ server.pc = "serving" /\ server.failed > 0

\* ----------------------------------------------------------------- C20
\* C20: server startup ends in one of two outcomes: the listener is bound
\* and the server serves, or the process has exited with non-zero status;
\* an exhausted probe budget, a failed schema initialization and a failed
\* bind all lead to the non-zero exit.
C20_ServesOrExitsNonZero ==
  server.pc \in {"serving", "bind_failed", "exited"} =>
     \/ server.pc = "serving"
     \/ server.pc = "exited" /\ server.exit \notin {Running, 0}

====
